---- MODULE Spec2Model ----
(***************************************************************************)
(* Model of the markdown presentation parser of                            *)
(* docs/presentations/generate.py: parse_frontmatter, parse_slide_content, *)
(* parse_markdown and the markdown renderer generate_markdown.             *)
(*                                                                         *)
(* Text.  A Python string is modelled as the non-empty sequence of its     *)
(* lines (what str.split("\n") returns; the empty string is one empty      *)
(* line).  A line is a record                                              *)
(*     [lead, k, a, b, trail]                                              *)
(* lead/trail: the line starts/ends with whitespace; k: the kind of the    *)
(* text between that whitespace; a, b: the payload of that text.           *)
(*     k = "blank"          ""            (lead = TRUE: whitespace only)    *)
(*     k = "marker"         ---                                            *)
(*     k = "text"           a             (plain paragraph text)           *)
(*     k = "item"           - a           (bullet / YAML list item)        *)
(*     k = "h1"             # a                                            *)
(*     k = "h2"             ## a                                           *)
(*     k = "fence"          ```a                                           *)
(*     k = "notes_open"     ::: notes                                      *)
(*     k = "close"          :::                                            *)
(*     k = "columns_open"   ::: columns                                    *)
(*     k = "column"         :::: column                                    *)
(*     k = "column_close"   ::::                                           *)
(*     k = "metric"         <!-- metric: value="a" label="b" -->           *)
(*     k = "cta"            <!-- cta: text="a" url="b" -->                 *)
(*     k = "image"          ![a](b)                                        *)
(*     k = "kv"             a: "b"        (YAML entry, quoted value)       *)
(*     k = "kvplain"        a: b          (YAML entry, plain value)        *)
(*     k = "kvnull"         a:            (YAML entry, no value)           *)
(***************************************************************************)
EXTENDS Integers, Sequences, FiniteSets, TLC

VARIABLES
    \* parse_slide_content: its argument, its locals, its return value
    slide_text, lines, idx, sc, slide, spc,
    \* for each line of `lines`, the buffers that grew when it was scanned
    buckets,
    \* two runs of parse_slide_content side by side
    ptexts, pscan, pslides, ppc,
    \* parse_markdown: its argument, its locals, where it stands
    content, frontmatter, body, pres, slide_texts, i, pc,
    \* generate_markdown's output for pres, and parse_markdown of that output
    rendered, reparsed

slideVars == <<slide_text, lines, idx, sc, slide, spc, buckets>>
pairVars  == <<ptexts, pscan, pslides, ppc>>
docVars   == <<content, frontmatter, body, pres, slide_texts, i, pc,
               rendered, reparsed>>
vars      == <<slideVars, pairVars, docVars>>

\* ------------------------------------------------------------------ bounds
\* longest slide text, in lines, that SlideSpec draws
MaxLines == 3
\* longest slide text, in lines, of the two that PairSpec draws
MaxPairLines == 2
\* longest document body, in lines, that Spec draws
MaxBody == 4
\* longest slide text, in lines, that FenceSpec draws
MaxFenceLines == 5
\* longest slide text, in lines, that DirectiveSpec draws
MaxDirectiveLines == 4
\* longest slide text, in lines, that HeadingSpec draws
MaxHeadingLines == 4

\* ------------------------------------------------------------------- lines
Line(k, a, b) == [lead |-> FALSE, k |-> k, a |-> a, b |-> b, trail |-> FALSE]
Lead(l)  == [l EXCEPT !.lead = TRUE]
Trail(l) == [l EXCEPT !.trail = TRUE]

EmptyLine == Line("blank", "", "")
Marker    == Line("marker", "", "")

\* line.strip() == "": the line is empty or whitespace only
IsBlank(l) == l.k = "blank"

\* str.lstrip / str.rstrip / str.strip of one line
LStrip(l) == [l EXCEPT !.lead = FALSE]
RStrip(l) == IF l.k = "blank" THEN EmptyLine ELSE [l EXCEPT !.trail = FALSE]
StripLine(l) == RStrip(LStrip(l))

\* ------------------------------------------------------------------- texts
\* "\n".join(lines): the join of no line and of one empty line are both ""
JoinLines(ls) == IF ls = <<>> THEN <<EmptyLine>> ELSE ls

\* not text.strip()
IsBlankText(t) == \A n \in 1..Len(t) : IsBlank(t[n])

\* str.strip() of a whole text: whitespace-only lines at both ends go, the
\* first remaining line loses its leading and the last its trailing whitespace
Strip(t) ==
    IF IsBlankText(t) THEN <<EmptyLine>>
    ELSE LET f == CHOOSE n \in 1..Len(t) :
                    /\ ~IsBlank(t[n])
                    /\ \A m \in 1..(n - 1) : IsBlank(t[m])
             g == CHOOSE n \in 1..Len(t) :
                    /\ ~IsBlank(t[n])
                    /\ \A m \in (n + 1)..Len(t) : IsBlank(t[m])
             s == SubSeq(t, f, g)
         IN [n \in 1..Len(s) |->
                IF n = 1 /\ n = Len(s) THEN StripLine(s[n])
                ELSE IF n = 1 THEN LStrip(s[n])
                ELSE IF n = Len(s) THEN RStrip(s[n])
                ELSE s[n]]

\* all texts of 1..n lines over the alphabet A
TextsOver(A, n) == UNION {[1..m -> A] : m \in 1..n}

\* ------------------------------------------------------- parse_slide_content
\* the scanner's locals and the SlideContent under construction
ScanInit ==
    [current_section |-> "content",
     content_lines |-> <<>>, notes_lines |-> <<>>,
     in_code_block |-> FALSE, code_block_lines |-> <<>>, code_lang |-> "",
     title |-> "", slide_type |-> "content",
     metrics |-> <<>>, columns |-> <<>>, code_blocks |-> <<>>,
     images |-> <<>>, cta |-> <<>>]

\* line.startswith("```"), and the other tests of the loop body
IsFence(l)   == l.k = "fence" /\ ~l.lead
IsMetric(l)  == l.k = "metric" /\ ~l.lead
IsCta(l)     == l.k = "cta" /\ ~l.lead
IsImage(l)   == l.k = "image" /\ ~l.lead
IsH1(l)      == l.k = "h1" /\ ~l.lead
IsH2(l)      == l.k = "h2" /\ ~l.lead

\* the last branch of the loop body: the bucket the current mode implies,
\* preceded by two faulty variants: one drops a line read in mode columns
\* before any bucket exists, the other also keeps a notes line as content
DefaultDispatchDropsOrphan(st, l) ==
    IF st.current_section = "notes"
    THEN [st EXCEPT !.notes_lines = Append(@, l)]
    ELSE IF st.current_section = "columns"
    THEN IF st.columns # <<>>
         THEN [st EXCEPT !.columns[Len(st.columns)] = Append(@, l)]
         ELSE st
    ELSE [st EXCEPT !.content_lines = Append(@, l)]

DefaultDispatchBoth(st, l) ==
    IF st.current_section = "notes"
    THEN [st EXCEPT !.notes_lines = Append(@, l), !.content_lines = Append(@, l)]
    ELSE IF st.current_section = "columns" /\ st.columns # <<>>
    THEN [st EXCEPT !.columns[Len(st.columns)] = Append(@, l)]
    ELSE [st EXCEPT !.content_lines = Append(@, l)]

DefaultDispatch(st, l) ==
    IF st.current_section = "notes"
    THEN [st EXCEPT !.notes_lines = Append(@, l)]
    ELSE IF st.current_section = "columns" /\ st.columns # <<>>
    THEN [st EXCEPT !.columns[Len(st.columns)] = Append(@, l)]
    ELSE [st EXCEPT !.content_lines = Append(@, l)]

\* "Handle code blocks": a line that starts with three backticks closes the
\* open block or opens one; the faulty variant before it keeps the buffered
\* lines when it closes a block
FenceLineKeepsBuffer(st, l) ==
    IF st.in_code_block
    THEN [st EXCEPT !.code_blocks =
                        Append(@, [lang |-> st.code_lang,
                                   code |-> JoinLines(st.code_block_lines)]),
                    !.in_code_block = FALSE]
    ELSE [st EXCEPT !.in_code_block = TRUE,
                    !.code_lang = IF l.a = "" THEN "text" ELSE l.a]

FenceLine(st, l) ==
    IF st.in_code_block
    THEN [st EXCEPT !.code_blocks =
                        Append(@, [lang |-> st.code_lang,
                                   code |-> JoinLines(st.code_block_lines)]),
                    !.code_block_lines = <<>>,
                    !.in_code_block = FALSE]
    ELSE [st EXCEPT !.in_code_block = TRUE,
                    !.code_lang = IF l.a = "" THEN "text" ELSE l.a]

\* "if in_code_block": any other line while a block is open; the faulty
\* variant before it lets a ":::" line inside the block end the notes
CodeBodyLineObeysClose(st, l) ==
    IF l.k = "close" THEN [st EXCEPT !.current_section = "content"]
    ELSE [st EXCEPT !.code_block_lines = Append(@, l)]

CodeBodyLine(st, l) ==
    [st EXCEPT !.code_block_lines = Append(@, l)]

\* "Handle notes": the lines "::: notes" and ":::"; the faulty variant
\* before it lets ":::" end the notes only, not the columns
NotesDirectiveKeepsColumns(st, l) ==
    IF l.k = "notes_open" THEN [st EXCEPT !.current_section = "notes"]
    ELSE IF st.current_section = "columns" THEN st
    ELSE [st EXCEPT !.current_section = "content"]

NotesDirective(st, l) ==
    IF l.k = "notes_open" THEN [st EXCEPT !.current_section = "notes"]
    ELSE [st EXCEPT !.current_section = "content"]

\* "Handle columns": the lines "::: columns", ":::: column..." and "::::";
\* of the faulty variants before it one keeps the buckets of an earlier
\* "::: columns", the other lets "::::" end the columns mode
ColumnsDirectiveCloserEndsMode(st, l) ==
    IF l.k = "columns_open"
    THEN [st EXCEPT !.current_section = "columns", !.columns = <<>>]
    ELSE IF l.k = "column" THEN [st EXCEPT !.columns = Append(@, <<>>)]
    ELSE [st EXCEPT !.current_section = "content"]

ColumnsDirectiveNoReset(st, l) ==
    IF l.k = "columns_open"
    THEN [st EXCEPT !.current_section = "columns"]
    ELSE IF l.k = "column" THEN [st EXCEPT !.columns = Append(@, <<>>)]
    ELSE st

ColumnsDirective(st, l) ==
    IF l.k = "columns_open"
    THEN [st EXCEPT !.current_section = "columns", !.columns = <<>>]
    ELSE IF l.k = "column" THEN [st EXCEPT !.columns = Append(@, <<>>)]
    ELSE st

\* "Handle headings": a line that starts with "# " or with "## "; the faulty
\* variant before it lets a level-2 heading set the slide type back to
\* content
HeadingLineH2Resets(st, l) ==
    IF IsH1(l) THEN [st EXCEPT !.title = l.a, !.slide_type = "section"]
    ELSE [st EXCEPT !.title = l.a, !.slide_type = "content"]

HeadingLine(st, l) ==
    IF IsH1(l) THEN [st EXCEPT !.title = l.a, !.slide_type = "section"]
    ELSE [st EXCEPT !.title = l.a]

\* one iteration of "for line in lines"; the faulty variant before it lets
\* the mode notes take a line before the metric, CTA, image and heading rules
\* see it
ScanLineNotesFirst(st, l) ==
    IF IsFence(l) THEN FenceLine(st, l)
    ELSE IF st.in_code_block THEN CodeBodyLine(st, l)
    ELSE IF l.k \in {"notes_open", "close"} THEN NotesDirective(st, l)
    ELSE IF l.k \in {"columns_open", "column", "column_close"}
    THEN ColumnsDirective(st, l)
    ELSE IF st.current_section = "notes" THEN DefaultDispatch(st, l)
    ELSE IF IsMetric(l) THEN
        [st EXCEPT !.metrics = Append(@, [value |-> l.a, label |-> l.b])]
    ELSE IF IsCta(l) THEN
        [st EXCEPT !.cta = Append(@, [text |-> l.a, url |-> l.b])]
    ELSE IF IsImage(l) THEN
        [st EXCEPT !.images = Append(@, [alt |-> l.a, src |-> l.b])]
    ELSE IF IsH1(l) \/ IsH2(l) THEN HeadingLine(st, l)
    ELSE DefaultDispatch(st, l)

ScanLine(st, l) ==
    IF IsFence(l) THEN FenceLine(st, l)
    ELSE IF st.in_code_block THEN CodeBodyLine(st, l)
    ELSE IF l.k \in {"notes_open", "close"} THEN NotesDirective(st, l)
    ELSE IF l.k \in {"columns_open", "column", "column_close"}
    THEN ColumnsDirective(st, l)
    ELSE IF IsMetric(l) THEN
        [st EXCEPT !.metrics = Append(@, [value |-> l.a, label |-> l.b])]
    ELSE IF IsCta(l) THEN
        [st EXCEPT !.cta = Append(@, [text |-> l.a, url |-> l.b])]
    ELSE IF IsImage(l) THEN
        [st EXCEPT !.images = Append(@, [alt |-> l.a, src |-> l.b])]
    ELSE IF IsH1(l) \/ IsH2(l) THEN HeadingLine(st, l)
    ELSE DefaultDispatch(st, l)

\* "Determine slide type", preceded by a faulty variant that ranks code
\* above metrics
SlideTypeOfCodeFirst(metrics, code_blocks, images, title, kept, prior) ==
    IF code_blocks # <<>> THEN "code"
    ELSE IF metrics # <<>> THEN "metrics"
    ELSE IF images # <<>> THEN "image"
    ELSE IF title = "" /\ kept = <<>> THEN "blank"
    ELSE prior

SlideTypeOf(metrics, code_blocks, images, title, kept, prior) ==
    IF metrics # <<>> THEN "metrics"
    ELSE IF code_blocks # <<>> THEN "code"
    ELSE IF images # <<>> THEN "image"
    ELSE IF title = "" /\ kept = <<>> THEN "blank"
    ELSE prior

\* what follows the loop: the text buckets, the slide type, the return value;
\* the faulty variants before it: one strips every content line, one keeps
\* the body of a code block that is still open as a last entry of
\* code_blocks, one takes the notes for content when it tests for a blank
\* slide
FinalizeStripsContent(st) ==
    LET nonblank == SelectSeq(st.content_lines, LAMBDA l : ~IsBlank(l))
        kept == [n \in 1..Len(nonblank) |-> StripLine(nonblank[n])]
    IN [title |-> st.title,
        content |-> kept,
        notes |-> Strip(JoinLines(st.notes_lines)),
        slide_type |-> SlideTypeOf(st.metrics, st.code_blocks, st.images,
                                   st.title, kept, st.slide_type),
        metrics |-> st.metrics, columns |-> st.columns,
        code_blocks |-> st.code_blocks, images |-> st.images, cta |-> st.cta]

FinalizeFlushesOpenBlock(st) ==
    LET kept == SelectSeq(st.content_lines, LAMBDA l : ~IsBlank(l))
        blocks == IF st.in_code_block
                  THEN Append(st.code_blocks,
                              [lang |-> st.code_lang,
                               code |-> JoinLines(st.code_block_lines)])
                  ELSE st.code_blocks
    IN [title |-> st.title,
        content |-> kept,
        notes |-> Strip(JoinLines(st.notes_lines)),
        slide_type |-> SlideTypeOf(st.metrics, blocks, st.images,
                                   st.title, kept, st.slide_type),
        metrics |-> st.metrics, columns |-> st.columns,
        code_blocks |-> blocks, images |-> st.images, cta |-> st.cta]

FinalizeNotesCount(st) ==
    LET kept == SelectSeq(st.content_lines, LAMBDA l : ~IsBlank(l))
    IN [title |-> st.title,
        content |-> kept,
        notes |-> Strip(JoinLines(st.notes_lines)),
        slide_type |-> SlideTypeOf(st.metrics, st.code_blocks, st.images,
                                   st.title, kept \o st.notes_lines,
                                   st.slide_type),
        metrics |-> st.metrics, columns |-> st.columns,
        code_blocks |-> st.code_blocks, images |-> st.images, cta |-> st.cta]

Finalize(st) ==
    LET kept == SelectSeq(st.content_lines, LAMBDA l : ~IsBlank(l))
    IN [title |-> st.title,
        content |-> kept,
        notes |-> Strip(JoinLines(st.notes_lines)),
        slide_type |-> SlideTypeOf(st.metrics, st.code_blocks, st.images,
                                   st.title, kept, st.slide_type),
        metrics |-> st.metrics, columns |-> st.columns,
        code_blocks |-> st.code_blocks, images |-> st.images, cta |-> st.cta]

RECURSIVE ScanAll(_, _)
ScanAll(st, ls) ==
    IF ls = <<>> THEN st ELSE ScanAll(ScanLine(st, Head(ls)), Tail(ls))

\* parse_slide_content as a function of the slide text
ParseSlideContent(t) == Finalize(ScanAll(ScanInit, Strip(t)))

\* ----------------------------------------------------------- parse_frontmatter
\* Python's None, as a YAML value and as a Presentation field
Null == "<None>"
\* bool(v) of a string or None
Truthy(v) == v # "" /\ v # Null

EmptyMap == <<>>

\* a line that YAML skips: empty, whitespace only, or a comment (# ...)
YamlSkips(l) == l.k \in {"blank", "h1", "h2"}
\* a line that is one block-mapping entry at column 0
YamlEntry(l) == l.k \in {"kv", "kvplain", "kvnull"} /\ ~l.lead
\* a line no YAML document can hold: a backtick cannot start a token, and
\* safe_load has no constructor for the tag of ![a](b)
YamlBad(l) == l.k \in {"fence", "image"}

\* the block mapping of the entry and list-item lines ls, read from line n on;
\* open: the key whose value is still an open block sequence ("" if none)
RECURSIVE YamlMapping(_, _, _, _)
YamlMapping(ls, n, map, open) ==
    IF n > Len(ls) THEN [kind |-> "map", entries |-> map]
    ELSE LET l == ls[n] IN
         IF YamlEntry(l) THEN
            YamlMapping(ls, n + 1,
                        [x \in (DOMAIN map) \cup {l.a} |->
                            IF x = l.a
                            THEN (IF l.k = "kvnull" THEN Null ELSE l.b)
                            ELSE map[x]],
                        IF l.k = "kvnull" THEN l.a ELSE "")
         ELSE IF l.k = "item" /\ open # "" THEN
            YamlMapping(ls, n + 1,
                        [map EXCEPT ![open] =
                            IF n > 1 /\ ls[n - 1].k = "item"
                            THEN Append(@, l.a) ELSE <<l.a>>],
                        open)
         ELSE [kind |-> "error", entries |-> EmptyMap]

\* yaml.safe_load on the YAML subset the line kinds span: "error" stands for
\* a raised yaml.YAMLError, "none" for a document without content
YamlLoad(t) ==
    LET ls == SelectSeq(t, LAMBDA l : ~YamlSkips(l))
        ns == {n \in 1..Len(t) : ~YamlSkips(t[n])}
    IN IF \E n \in 1..Len(ls) : YamlBad(ls[n]) \/ ls[n].k = "marker"
       THEN [kind |-> "error", entries |-> EmptyMap]
       ELSE IF ls = <<>> THEN [kind |-> "none", entries |-> EmptyMap]
       ELSE IF YamlEntry(ls[1]) THEN YamlMapping(ls, 1, EmptyMap, "")
       ELSE IF \A n \in 1..Len(ls) : ls[n].k = "item" /\ ~ls[n].lead
       THEN [kind |-> "list", entries |-> EmptyMap]
       ELSE IF /\ \A n \in 1..Len(ls) : ls[n].k = "text"
               \* a comment line ends a plain scalar: none lies inside it
               /\ \A n \in 1..Len(t) :
                    (t[n].k \in {"h1", "h2"}) =>
                        ~(\E m1, m2 \in ns : m1 < n /\ n < m2)
       THEN [kind |-> "scalar", entries |-> EmptyMap]
       ELSE [kind |-> "error", entries |-> EmptyMap]

\* content.startswith("---")
StartsWithMarker(t) == t[1].k = "marker" /\ ~t[1].lead

\* the lines after the first that hold "---"
LaterMarkers(t) == {n \in 2..Len(t) : t[n].k = "marker"}

\* what is left of a marker line before and after its "---"
BeforeMarker(l) == IF l.lead THEN Lead(EmptyLine) ELSE EmptyLine
AfterMarker(l)  == IF l.trail THEN Lead(EmptyLine) ELSE EmptyLine

\* parts[1] and parts[2] of content.split("---", 2), n the line of the
\* second "---"
Parts1(t, n) ==
    <<AfterMarker(t[1])>> \o SubSeq(t, 2, n - 1) \o <<BeforeMarker(t[n])>>
Parts2(t, n) == <<AfterMarker(t[n])>> \o SubSeq(t, n + 1, Len(t))

\* the last line of parse_frontmatter, preceded by a faulty variant that
\* strips the body there as well
FallbackStripped(t) ==
    [frontmatter |-> [kind |-> "map", entries |-> EmptyMap], body |-> Strip(t)]

Fallback(t) ==
    [frontmatter |-> [kind |-> "map", entries |-> EmptyMap], body |-> t]

\* parse_frontmatter: the pair (frontmatter, body)
ParseFrontmatter(t) ==
    IF StartsWithMarker(t) /\ LaterMarkers(t) # {}
    THEN LET n == CHOOSE x \in LaterMarkers(t) :
                    \A y \in LaterMarkers(t) : x <= y
             y == YamlLoad(Parts1(t, n))
         IN IF y.kind = "error" THEN Fallback(t)
            ELSE [frontmatter |->
                      \* frontmatter or {}
                      IF y.kind = "none" THEN [kind |-> "map", entries |-> EmptyMap]
                      ELSE y,
                  body |-> Strip(Parts2(t, n))]
    ELSE Fallback(t)

\* ------------------------------------------------------------- parse_markdown
\* datetime.now().strftime("%Y-%m-%d")
Today == "TODAY"

\* dict.get(key, default)
Get(map, key, default) == IF key \in DOMAIN map THEN map[key] ELSE default

\* pres = Presentation(...): only a mapping has .get
MakePresentation(fm) ==
    [title |-> Get(fm.entries, "title", "Untitled Presentation"),
     subtitle |-> Get(fm.entries, "subtitle", ""),
     author |-> Get(fm.entries, "author", ""),
     date |-> Get(fm.entries, "date", Today),
     style |-> Get(fm.entries, "style", "systematic-velocity"),
     formats |-> Get(fm.entries, "format", <<"pdf">>),
     slides |-> <<>>]

\* a line that is exactly "---"
IsSeparatorLine(l) == l.k = "marker" /\ ~l.lead /\ ~l.trail

\* the lines of t that re.split(r"\n---\n", t) matches: a "---" line with a
\* line break on both sides, the one before it not used up by the match
\* before
RECURSIVE Separators(_, _)
Separators(t, n) ==
    IF n >= Len(t) THEN {}
    ELSE IF n > 1 /\ IsSeparatorLine(t[n])
    THEN {n} \cup Separators(t, n + 2)
    ELSE Separators(t, n + 1)

\* re.split(r"\n---\n", body), from line n on
RECURSIVE SplitFrom(_, _, _)
SplitFrom(t, n, seps) ==
    LET later == {x \in seps : x >= n}
    IN IF later = {} THEN <<SubSeq(t, n, Len(t))>>
       ELSE LET x == CHOOSE y \in later : \A z \in later : y <= z
            IN <<JoinLines(SubSeq(t, n, x - 1))>> \o SplitFrom(t, x + 1, seps)

ReSplit(t) == SplitFrom(t, 1, Separators(t, 1))

\* the test that skips a span, preceded by a faulty variant that forgets to
\* strip
SpanIsEmptyNoStrip(t) == t = <<EmptyLine>>

SpanIsEmpty(t) == Strip(t) = <<EmptyLine>>

\* a title or subtitle string (plain words) as a line of text
TextLine(v) == Line("text", v, "")

\* "First slide is title slide": the slide appended for span number n
\* (counted from 0) of slide_texts; the faulty variant before it rewrites an
\* untitled slide whatever the number of its span
TitleSlideAnyIndex(n, p, s) ==
    IF ~Truthy(s.title)
    THEN [s EXCEPT !.title = p.title,
                   !.slide_type = "title",
                   !.content = IF Truthy(p.subtitle) THEN <<TextLine(p.subtitle)>>
                               ELSE <<>>]
    ELSE s

TitleSlide(n, p, s) ==
    IF n = 0 /\ ~Truthy(s.title)
    THEN [s EXCEPT !.title = p.title,
                   !.slide_type = "title",
                   !.content = IF Truthy(p.subtitle) THEN <<TextLine(p.subtitle)>>
                               ELSE <<>>]
    ELSE s

\* the loop of parse_markdown from span number n on
RECURSIVE SlidesFrom(_, _, _)
SlidesFrom(texts, n, p) ==
    IF n >= Len(texts) THEN <<>>
    ELSE IF SpanIsEmpty(texts[n + 1]) THEN SlidesFrom(texts, n + 1, p)
    ELSE <<TitleSlide(n, p, ParseSlideContent(texts[n + 1]))>>
            \o SlidesFrom(texts, n + 1, p)

NoPresentation == MakePresentation([kind |-> "map", entries |-> EmptyMap])

\* parse_markdown as a function of the text: raised for the AttributeError
\* of a frontmatter without .get
ParseMarkdown(t) ==
    LET fb == ParseFrontmatter(t)
    IN IF fb.frontmatter.kind # "map"
       THEN [raised |-> TRUE, pres |-> NoPresentation]
       ELSE LET p == MakePresentation(fb.frontmatter)
            IN [raised |-> FALSE,
                pres |-> [p EXCEPT !.slides = SlidesFrom(ReSplit(fb.body), 0, p)]]

\* ---------------------------------------------------------- generate_markdown
\* "{x}" in an f-string
Fmt(v) == IF v = Null THEN "None" ELSE v

RECURSIVE Flatten(_)
Flatten(ss) == IF ss = <<>> THEN <<>> ELSE Head(ss) \o Flatten(Tail(ss))

FrontmatterLines(p) ==
    <<Marker, Line("kv", "title", Fmt(p.title))>>
    \o (IF Truthy(p.subtitle) THEN <<Line("kv", "subtitle", Fmt(p.subtitle))>>
        ELSE <<>>)
    \o (IF Truthy(p.author) THEN <<Line("kv", "author", Fmt(p.author))>>
        ELSE <<>>)
    \o <<Line("kvplain", "date", Fmt(p.date)),
         Line("kvplain", "style", Fmt(p.style)),
         Line("kvnull", "format", "")>>
    \o [n \in 1..Len(p.formats) |-> Lead(Line("item", p.formats[n], ""))]
    \o <<Marker, EmptyLine>>

ColumnLines(col) ==
    <<Line("column", "", "")>> \o col \o <<Line("column_close", "", "")>>

\* the lines generate_markdown appends for slide number n (counted from 0)
SlideLinesOut(n, s) ==
    (IF n > 0 THEN <<EmptyLine, Marker, EmptyLine>> ELSE <<>>)
    \o (IF Truthy(s.title)
        THEN <<Line(IF s.slide_type \in {"title", "section"} THEN "h1" ELSE "h2",
                    s.title, ""),
               EmptyLine>>
        ELSE <<>>)
    \o [m \in 1..Len(s.metrics) |->
            Line("metric", s.metrics[m].value, s.metrics[m].label)]
    \o s.content
    \o Flatten([m \in 1..Len(s.code_blocks) |->
            <<Line("fence", s.code_blocks[m].lang, "")>>
            \o s.code_blocks[m].code \o <<Line("fence", "", "")>>])
    \o (IF s.columns # <<>>
        THEN <<Line("columns_open", "", "")>>
             \o Flatten([m \in 1..Len(s.columns) |-> ColumnLines(s.columns[m])])
             \o <<Line("close", "", "")>>
        ELSE <<>>)
    \o [m \in 1..Len(s.cta) |-> Line("cta", s.cta[m].text, s.cta[m].url)]
    \o (IF s.notes # <<EmptyLine>>
        THEN <<EmptyLine, Line("notes_open", "", "")>> \o s.notes
             \o <<Line("close", "", "")>>
        ELSE <<>>)

\* the text generate_markdown writes
GenerateMarkdown(p) ==
    FrontmatterLines(p)
    \o Flatten([n \in 1..Len(p.slides) |-> SlideLinesOut(n - 1, p.slides[n])])

\* ------------------------------------------------------ Spec: parse_markdown
\* the frontmatter blocks a document may open with
FmBlocks ==
    {<<>>,
     <<Marker, Marker>>,
     <<Marker, Line("kv", "title", "T"), Marker>>,
     <<Marker, Line("kv", "title", "T"), Line("kv", "subtitle", "S"), Marker>>,
     <<Marker, Line("kv", "subtitle", "S"), Marker>>,
     <<Marker, Line("kv", "title", ""), Marker>>,
     <<Marker, Line("kvnull", "title", ""), Marker>>,
     <<Marker, Line("text", "hello", ""), Marker>>,
     <<Marker, Line("item", "x", ""), Marker>>,
     <<Marker, Line("image", "i", "u"), Marker>>}

\* the lines of a document body
DocLines ==
    {Marker, EmptyLine, Lead(EmptyLine), Line("text", "a", ""),
     Line("h2", "T", ""), Line("image", "i", "u")}

Documents == {f \o b : f \in FmBlocks, b \in TextsOver(DocLines, MaxBody)}

\* the variables of the specifications that are not running
SlideIdle ==
    /\ slide_text = <<EmptyLine>> /\ lines = <<>> /\ idx = 0 /\ sc = ScanInit
    /\ slide = Finalize(ScanInit) /\ spc = "idle" /\ buckets = <<>>

PairIdle ==
    /\ ptexts = <<>> /\ pscan = <<>> /\ pslides = <<>> /\ ppc = 0

DocIdle ==
    /\ content = <<EmptyLine>>
    /\ frontmatter = [kind |-> "map", entries |-> EmptyMap]
    /\ body = <<EmptyLine>> /\ pres = NoPresentation
    /\ slide_texts = <<>> /\ i = 0 /\ pc = "idle"
    /\ rendered = <<>> /\ reparsed = [raised |-> FALSE, pres |-> NoPresentation]

Init ==
    /\ content \in Documents
    /\ frontmatter = [kind |-> "map", entries |-> EmptyMap]
    /\ body = <<EmptyLine>> /\ pres = NoPresentation
    /\ slide_texts = <<>> /\ i = 0 /\ pc = "start"
    /\ rendered = <<>> /\ reparsed = [raised |-> FALSE, pres |-> NoPresentation]
    /\ SlideIdle /\ PairIdle

\* frontmatter, body = parse_frontmatter(content)
DoParseFrontmatter ==
    /\ pc = "start"
    /\ frontmatter' = ParseFrontmatter(content).frontmatter
    /\ body' = ParseFrontmatter(content).body
    /\ pc' = "frontmatter"
    /\ UNCHANGED <<content, pres, slide_texts, i, rendered, reparsed,
                   slideVars, pairVars>>

\* pres = Presentation(title=frontmatter.get(...), ...)
DoMakePresentation ==
    /\ pc = "frontmatter" /\ frontmatter.kind = "map"
    /\ pres' = MakePresentation(frontmatter)
    /\ pc' = "presentation"
    /\ UNCHANGED <<content, frontmatter, body, slide_texts, i, rendered,
                   reparsed, slideVars, pairVars>>

\* frontmatter.get on a str or a list: AttributeError leaves parse_markdown
RaiseAttributeError ==
    /\ pc = "frontmatter" /\ frontmatter.kind # "map"
    /\ pc' = "raised"
    /\ UNCHANGED <<content, frontmatter, body, pres, slide_texts, i, rendered,
                   reparsed, slideVars, pairVars>>

\* slide_texts = re.split(r"\n---\n", body)
DoSplit ==
    /\ pc = "presentation"
    /\ slide_texts' = ReSplit(body)
    /\ i' = 0
    /\ pc' = "loop"
    /\ UNCHANGED <<content, frontmatter, body, pres, rendered, reparsed,
                   slideVars, pairVars>>

\* one iteration of the loop: "if not slide_text.strip(): continue"
LoopSkip ==
    /\ pc = "loop" /\ i < Len(slide_texts)
    /\ SpanIsEmpty(slide_texts[i + 1])
    /\ i' = i + 1
    /\ UNCHANGED <<content, frontmatter, body, pres, slide_texts, pc, rendered,
                   reparsed, slideVars, pairVars>>

\* one iteration of the loop: parse the span, rewrite the slide of span 0,
\* append
LoopSlide ==
    /\ pc = "loop" /\ i < Len(slide_texts)
    /\ ~SpanIsEmpty(slide_texts[i + 1])
    /\ pres' = [pres EXCEPT !.slides =
                    Append(@, TitleSlide(i, pres,
                                         ParseSlideContent(slide_texts[i + 1])))]
    /\ i' = i + 1
    /\ UNCHANGED <<content, frontmatter, body, slide_texts, pc, rendered,
                   reparsed, slideVars, pairVars>>

\* return pres
Return ==
    /\ pc = "loop" /\ i = Len(slide_texts)
    /\ pc' = "done"
    /\ UNCHANGED <<content, frontmatter, body, pres, slide_texts, i, rendered,
                   reparsed, slideVars, pairVars>>

\* main, format md: generate_markdown(presentation, ...)
Render ==
    /\ pc = "done"
    /\ rendered' = GenerateMarkdown(pres)
    /\ pc' = "rendered"
    /\ UNCHANGED <<content, frontmatter, body, pres, slide_texts, i, reparsed,
                   slideVars, pairVars>>

\* parse_markdown of the file generate_markdown wrote
Reparse ==
    /\ pc = "rendered"
    /\ reparsed' = ParseMarkdown(rendered)
    /\ pc' = "reparsed"
    /\ UNCHANGED <<content, frontmatter, body, pres, slide_texts, i, rendered,
                   slideVars, pairVars>>

Next ==
    \/ DoParseFrontmatter \/ DoMakePresentation \/ RaiseAttributeError
    \/ DoSplit \/ LoopSkip \/ LoopSlide \/ Return \/ Render \/ Reparse

Spec == Init /\ [][Next]_vars

\* ------------------------------------------------- SlideSpec: one slide text
SlideLines ==
    {Line("text", "a", ""), Trail(Line("text", "a", "")),
     EmptyLine, Lead(EmptyLine),
     Line("h1", "T", ""), Line("h2", "T", ""), Lead(Line("h2", "U", "")),
     Line("fence", "", ""), Line("fence", "py", ""),
     Line("notes_open", "", ""), Lead(Line("close", "", "")),
     Line("columns_open", "", ""), Line("column", "", ""),
     Line("column_close", "", ""),
     Line("metric", "42%", "Growth"), Line("cta", "Go", "u"),
     Line("image", "i", "u")}

\* the buffers of the four buckets that are longer in st2 than in st
Grown(st, st2) ==
    (IF Len(st2.code_block_lines) > Len(st.code_block_lines)
        THEN {"code"} ELSE {})
    \cup (IF Len(st2.notes_lines) > Len(st.notes_lines) THEN {"notes"} ELSE {})
    \cup (IF \E c \in 1..Len(st2.columns) :
                /\ c <= Len(st.columns)
                /\ Len(st2.columns[c]) > Len(st.columns[c])
           THEN {"column"} ELSE {})
    \cup (IF Len(st2.content_lines) > Len(st.content_lines)
           THEN {"content"} ELSE {})

SlideInit ==
    /\ slide_text \in TextsOver(SlideLines, MaxLines)
    /\ lines = <<>> /\ idx = 0 /\ sc = ScanInit
    /\ slide = Finalize(ScanInit) /\ spc = "start"
    /\ buckets = <<>>
    /\ PairIdle /\ DocIdle

\* slide = SlideContent(); lines = slide_text.strip().split("\n"); the locals
SlideBegin ==
    /\ spc = "start"
    /\ lines' = Strip(slide_text)
    /\ sc' = ScanInit
    /\ idx' = 1
    /\ buckets' = [n \in 1..Len(Strip(slide_text)) |-> {}]
    /\ spc' = "scan"
    /\ UNCHANGED <<slide_text, slide, pairVars, docVars>>

\* one iteration of the loop over lines
SlideStep ==
    /\ spc = "scan" /\ idx <= Len(lines)
    /\ sc' = ScanLine(sc, lines[idx])
    /\ buckets' = [buckets EXCEPT ![idx] = Grown(sc, ScanLine(sc, lines[idx]))]
    /\ idx' = idx + 1
    /\ UNCHANGED <<slide_text, lines, slide, spc, pairVars, docVars>>

\* the loop has ended: finalization and return
SlideReturn ==
    /\ spc = "scan" /\ idx > Len(lines)
    /\ slide' = Finalize(sc)
    /\ spc' = "done"
    /\ UNCHANGED <<slide_text, lines, idx, sc, buckets, pairVars, docVars>>

SlideNext == SlideBegin \/ SlideStep \/ SlideReturn

SlideSpec == SlideInit /\ [][SlideNext]_vars

\* ------------------------- FenceSpec: one longer slide text with code fences
FenceLines ==
    {Line("fence", "", ""), Line("fence", "py", ""),
     Line("text", "a", ""), EmptyLine, Line("h1", "T", ""),
     Line("close", "", "")}

FenceInit ==
    /\ slide_text \in TextsOver(FenceLines, MaxFenceLines)
    /\ lines = <<>> /\ idx = 0 /\ sc = ScanInit
    /\ slide = Finalize(ScanInit) /\ spc = "start"
    /\ buckets = <<>>
    /\ PairIdle /\ DocIdle

FenceSpec == FenceInit /\ [][SlideNext]_vars

\* ------------------- DirectiveSpec: one longer slide text with directives
DirectiveLines ==
    {Line("columns_open", "", ""), Line("column", "", ""),
     Line("column_close", "", ""), Line("close", "", ""),
     Line("notes_open", "", ""), Line("text", "a", ""),
     Line("text", "b", "")}

DirectiveInit ==
    /\ slide_text \in TextsOver(DirectiveLines, MaxDirectiveLines)
    /\ lines = <<>> /\ idx = 0 /\ sc = ScanInit
    /\ slide = Finalize(ScanInit) /\ spc = "start"
    /\ buckets = <<>>
    /\ PairIdle /\ DocIdle

DirectiveSpec == DirectiveInit /\ [][SlideNext]_vars

\* ------------------ HeadingSpec: one slide text with headings of many titles
HeadingLines ==
    {Line("h1", "T", ""), Trail(Line("h1", "V", "")),
     Line("h2", "U", ""), Line("h2", "T", ""), Lead(Line("h1", "W", "")),
     Line("fence", "", ""), Line("text", "a", ""),
     Line("metric", "42%", "Growth")}

HeadingInit ==
    /\ slide_text \in TextsOver(HeadingLines, MaxHeadingLines)
    /\ lines = <<>> /\ idx = 0 /\ sc = ScanInit
    /\ slide = Finalize(ScanInit) /\ spc = "start"
    /\ buckets = <<>>
    /\ PairIdle /\ DocIdle

HeadingSpec == HeadingInit /\ [][SlideNext]_vars

\* ------------------------------------------------- PairSpec: two slide texts
PairLines ==
    {Line("text", "a", ""), Line("h1", "T", ""), Line("h2", "T", ""),
     Line("metric", "42%", "Growth"), Line("notes_open", "", ""),
     Line("close", "", "")}

PairInit ==
    /\ ptexts \in TextsOver(PairLines, MaxPairLines)
                  \X TextsOver(PairLines, MaxPairLines)
    /\ pscan = <<>> /\ pslides = <<>> /\ ppc = 0
    /\ SlideIdle /\ DocIdle

\* the next of the two calls of parse_slide_content
PairParse ==
    /\ ppc < 2
    /\ pscan' = Append(pscan, ScanAll(ScanInit, Strip(ptexts[ppc + 1])))
    /\ pslides' = Append(pslides, ParseSlideContent(ptexts[ppc + 1]))
    /\ ppc' = ppc + 1
    /\ UNCHANGED <<ptexts, slideVars, docVars>>

PairNext == PairParse

PairSpec == PairInit /\ [][PairNext]_vars

\* ---------------------------------------------------------------- claims
\* C1 as stated: parse_markdown never raises, whatever the frontmatter
\* decodes to.
C1_NeverRaises == pc # "raised"

\* the document has a frontmatter block with a title, no line of it starts or
\* ends with whitespace, every "---" line of its body separates two slides,
\* and no slide is empty
WellFormedDocument ==
    /\ StartsWithMarker(content)
    /\ "title" \in DOMAIN frontmatter.entries
    /\ Truthy(frontmatter.entries["title"])
    /\ \A n \in 1..Len(content) : ~content[n].lead /\ ~content[n].trail
    /\ \A n \in 1..Len(body) :
        body[n].k = "marker" => n \in Separators(body, 1)
    /\ \A n \in 1..Len(slide_texts) : ~IsBlankText(slide_texts[n])

SameDeck(p, r) ==
    /\ p.title = r.title
    /\ Len(p.slides) = Len(r.slides)
    /\ \A n \in 1..Len(p.slides) :
        n <= Len(r.slides) =>
            /\ p.slides[n].title = r.slides[n].title
            /\ p.slides[n].content = r.slides[n].content
            /\ p.slides[n].metrics = r.slides[n].metrics
            /\ p.slides[n].code_blocks = r.slides[n].code_blocks
            /\ p.slides[n].cta = r.slides[n].cta

\* C2 as stated: rendering the Presentation parsed from a well-formed
\* document and parsing the rendered text again gives the same number of
\* slides, the same presentation title and, slide by slide, the same title,
\* content, metrics, code_blocks and cta.
C2_RoundTrip ==
    pc = "reparsed" /\ WellFormedDocument
        => ~reparsed.raised /\ SameDeck(pres, reparsed.pres)

\* the spans of slide_texts that are not empty or whitespace only
KeptSpans == SelectSeq(slide_texts, LAMBDA t : ~IsBlankText(t))

HasHeadingLine(t) == \E n \in 1..Len(t) : IsH1(t[n]) \/ IsH2(t[n])

\* C3 as stated: the first slide gets the Presentation title and slide_type
\* title exactly when the first non-empty span holds no heading line, and is
\* left as the Slide Parser produced it when the span holds one.
C3_RewriteIffNoHeading ==
    pc = "done" /\ pres.slides # <<>> =>
        LET first == Strip(KeptSpans[1])
            s == pres.slides[1]
        IN IF HasHeadingLine(first)
           THEN s = ParseSlideContent(first)
           ELSE s.title = pres.title /\ s.slide_type = "title"

C7_NoMarkerInSpan ==
    pc \in {"loop", "done"} =>
        \A n \in 1..Len(slide_texts) :
            ~SpanIsEmpty(slide_texts[n]) =>
                \A m \in 1..Len(slide_texts[n]) :
                    ~IsSeparatorLine(slide_texts[n][m])

\* C8: the slides of the returned Presentation are, in order, those of the
\* spans that are not empty or whitespace only, and a document that is empty
\* or whitespace only yields no slide.
C8_EmptySpansDropped ==
    pc = "done" =>
        /\ Len(pres.slides) = Len(KeptSpans)
        /\ \A n \in 1..Len(pres.slides) :
            n <= Len(KeptSpans) =>
                LET s == pres.slides[n]
                    q == ParseSlideContent(KeptSpans[n])
                IN /\ s.metrics = q.metrics /\ s.images = q.images
                   /\ s.code_blocks = q.code_blocks /\ s.cta = q.cta
                   /\ s.notes = q.notes /\ s.columns = q.columns
                   /\ s.slide_type # "title" => s = q
        /\ IsBlankText(content) => pres.slides = <<>>

\* a whitespace-only span was skipped and a later span gave a slide
C8_Witness ==
    /\ pc = "done"
    /\ \E n, m \in 1..Len(slide_texts) :
        /\ n < m
        /\ IsBlankText(slide_texts[n]) /\ slide_texts[n] # <<EmptyLine>>
        /\ ~IsBlankText(slide_texts[m])
    /\ Len(pres.slides) = 1

\* C9 as stated: the title of the returned Presentation is a non-empty
\* string.
C9_TitleNotEmpty == pc = "done" => Truthy(pres.title)

\* a level-1 heading line of ls lies outside every code block
RECURSIVE H1Seen(_, _)
H1Seen(ls, incode) ==
    IF ls = <<>> THEN FALSE
    ELSE IF IsFence(Head(ls)) THEN H1Seen(Tail(ls), ~incode)
    ELSE (~incode /\ IsH1(Head(ls))) \/ H1Seen(Tail(ls), incode)

SameFields(s, t) ==
    /\ s.metrics = t.metrics /\ s.code_blocks = t.code_blocks
    /\ s.images = t.images /\ s.title = t.title /\ s.content = t.content

\* C4 as stated: two slide texts for which parse_slide_content returns the
\* same metrics, code_blocks, images, title and content get the same
\* slide_type.
C4_TypeFromFields ==
    ppc = 2 /\ SameFields(pslides[1], pslides[2])
        => pslides[1].slide_type = pslides[2].slide_type

\* C4 amended: two slide texts for which parse_slide_content returns the same
\* metrics, code_blocks, images, title and content, and for which the heading
\* rules left the same slide_type before finalization (section if a level-1
\* heading line was consumed, content otherwise), get the same slide_type.
C4_TypeFromFieldsAndHeading ==
    (/\ ppc = 2
     /\ SameFields(pslides[1], pslides[2])
     /\ pscan[1].slide_type = pscan[2].slide_type)
        => pslides[1].slide_type = pslides[2].slide_type

\* two different texts, one with notes and one without, agree on the fields
\* and on the heading type
C4_Witness ==
    /\ ppc = 2
    /\ ptexts[1] # ptexts[2]
    /\ SameFields(pslides[1], pslides[2])
    /\ pscan[1].slide_type = pscan[2].slide_type
    /\ pscan[1].notes_lines # <<>> /\ pscan[2].notes_lines = <<>>

\* C5: in one run of parse_slide_content every line is consumed into at most
\* one of the code-block body, the notes buffer, a column bucket and the
\* content buffer.
C5_ExclusiveBuckets ==
    \A n \in DOMAIN buckets : Cardinality(buckets[n]) <= 1

\* a finished scan whose lines went to two different buckets
C5_Witness ==
    /\ spc = "done"
    /\ \E n, m \in DOMAIN buckets :
        buckets[n] = {"notes"} /\ buckets[m] = {"content"}

\* C10: the returned slide_type is metrics if metrics is non-empty, else code
\* if code_blocks is non-empty, else image if images is non-empty, else blank
\* if title and content are both empty, else section if a level-1 heading
\* was seen and content otherwise.
C10_TypePriority ==
    spc = "done" =>
        slide.slide_type =
            IF slide.metrics # <<>> THEN "metrics"
            ELSE IF slide.code_blocks # <<>> THEN "code"
            ELSE IF slide.images # <<>> THEN "image"
            ELSE IF slide.title = "" /\ slide.content = <<>> THEN "blank"
            ELSE IF H1Seen(lines, FALSE) THEN "section"
            ELSE "content"

\* a returned slide that has a metric and a code block
C10_Witness ==
    /\ spc = "done"
    /\ slide.metrics # <<>> /\ slide.code_blocks # <<>>
    /\ slide.slide_type = "metrics"

\* line n of ls lies inside a code block: an odd number of fence lines
\* comes before it
InCode(ls, n) == Cardinality({m \in 1..(n - 1) : IsFence(ls[m])}) % 2 = 1

\* C11 as stated: a column-start marker (":::: column...") scanned outside a
\* code block while the mode is not columns leaves the slide's columns as
\* they were.
C11_MarkerInertOutsideColumns ==
    [][(/\ SlideStep
        /\ ~sc.in_code_block
        /\ lines[idx].k = "column"
        /\ sc.current_section # "columns")
            => sc'.columns = sc.columns]_vars

\* the fence lines of ls, and the last of them
Fences(ls) == {n \in 1..Len(ls) : IsFence(ls[n])}
LastFence(ls) == CHOOSE n \in Fences(ls) : \A m \in Fences(ls) : m <= n

\* C12: when the slide text ends while a code block is open (its number of
\* fence lines is odd), parse_slide_content returns, code_blocks holds one
\* entry per fence pair closed before, and the returned slide is the one the
\* lines before the opening fence give alone: the lines after that fence
\* reach no field of it.
C12_UnterminatedFenceDiscarded ==
    spc = "done" /\ Cardinality(Fences(lines)) % 2 = 1 =>
        /\ Len(slide.code_blocks) = (Cardinality(Fences(lines)) - 1) \div 2
        /\ slide = Finalize(ScanAll(ScanInit,
                                    SubSeq(lines, 1, LastFence(lines) - 1)))

\* a returned slide with a closed code block, then a fence that is never
\* closed, then a heading line that set no title
C12_Witness ==
    /\ spc = "done"
    /\ Cardinality(Fences(lines)) % 2 = 1
    /\ slide.code_blocks # <<>>
    /\ \E n \in 1..Len(lines) : n > LastFence(lines) /\ lines[n].k = "h1"
    /\ slide.title = ""

\* the place in slide_texts, counted from 0, of the span that gave slide
\* number j (counted from 1) of the result
SpanIndex(j) ==
    CHOOSE n \in 0..(Len(slide_texts) - 1) :
        /\ ~IsBlankText(slide_texts[n + 1])
        /\ Cardinality({m \in 0..n : ~IsBlankText(slide_texts[m + 1])}) = j

C14_PriorityInEveryDeck ==
    pc = "done" =>
        \A j \in 1..Len(pres.slides) :
            LET s == pres.slides[j]
            IN /\ s.metrics # <<>> => s.slide_type = "metrics"
               /\ s.metrics = <<>> /\ s.code_blocks # <<>>
                    => s.slide_type = "code"
               /\ s.metrics = <<>> /\ s.code_blocks = <<>> /\ s.images # <<>>
                    => s.slide_type = "image"

\* the fence lines of ls from line n on, and the first of them
FencesFrom(ls, n) == {m \in n..Len(ls) : IsFence(ls[m])}
FirstFence(ls, n) ==
    CHOOSE m \in FencesFrom(ls, n) : \A x \in FencesFrom(ls, n) : m <= x

\* the language a fence line names
LangOf(l) == IF l.a = "" THEN "text" ELSE l.a

\* one {lang, code} entry per pair of an opening and the next closing fence
\* line of ls from line n on, in the order of the lines
RECURSIVE FencePairs(_, _)
FencePairs(ls, n) ==
    IF FencesFrom(ls, n) = {} THEN <<>>
    ELSE LET o == FirstFence(ls, n)
         IN IF FencesFrom(ls, o + 1) = {} THEN <<>>
            ELSE LET c == FirstFence(ls, o + 1)
                 IN <<[lang |-> LangOf(ls[o]),
                       code |-> JoinLines(SubSeq(ls, o + 1, c - 1))]>>
                    \o FencePairs(ls, c + 1)

\* C15: at every point of the scan a block is open exactly when an odd number
\* of fence lines has been read, and then code_lang is the language of the
\* opening fence (text if it names none) and the buffer holds the lines read
\* since, unmodified and in order; while no block is open the buffer is
\* empty; code_blocks holds one entry per fence pair read so far, in document
\* order, its code the body lines joined by newlines; and so does the
\* returned slide.
C15_FenceToggle ==
    /\ spc = "scan" =>
        LET read == SubSeq(lines, 1, idx - 1)
        IN /\ sc.in_code_block = (Cardinality(Fences(read)) % 2 = 1)
           /\ sc.code_blocks = FencePairs(read, 1)
           /\ sc.in_code_block =>
                /\ sc.code_lang = LangOf(read[LastFence(read)])
                /\ sc.code_block_lines =
                        SubSeq(read, LastFence(read) + 1, Len(read))
           /\ ~sc.in_code_block => sc.code_block_lines = <<>>
    /\ spc = "done" => slide.code_blocks = FencePairs(lines, 1)

\* a returned slide with two code blocks, the first named py with a one-line
\* body, the second unnamed and empty
C15_Witness ==
    /\ spc = "done"
    /\ Len(slide.code_blocks) = 2
    /\ slide.code_blocks[1] =
            [lang |-> "py", code |-> <<Line("text", "a", "")>>]
    /\ slide.code_blocks[2] = [lang |-> "text", code |-> <<EmptyLine>>]

\* C16: a scan step on a line that is no fence while a code block is open
\* appends the line to the code-block buffer and changes nothing else (mode,
\* title, slide_type, metrics, cta, images, columns, notes and content
\* buffers), whatever the line looks like; a scan step on a fence line
\* leaves the mode as it was.
C16_CodeBlockFrame ==
    [][/\ (SlideStep /\ sc.in_code_block /\ ~IsFence(lines[idx]))
            => sc' = [sc EXCEPT !.code_block_lines = Append(@, lines[idx])]
       /\ (SlideStep /\ IsFence(lines[idx]))
            => sc'.current_section = sc.current_section]_vars

\* a scan in mode notes with an open code block whose buffer holds a line
\* that reads as a directive, a heading, a metric, a CTA or an image
C16_Witness ==
    /\ spc = "scan"
    /\ sc.in_code_block
    /\ sc.current_section = "notes"
    /\ \E n \in 1..Len(sc.code_block_lines) :
        sc.code_block_lines[n].k \in
            {"close", "columns_open", "column", "h1", "h2", "metric", "cta",
             "image"}

\* C17: outside a code block a scan step on a "::: notes" line sets the mode
\* to notes and a scan step on a ":::" line sets it to content, from every
\* mode, and changes nothing else: no buffer, no column bucket, no metric,
\* no title.
C17_NotesDirective ==
    [][/\ (SlideStep /\ ~sc.in_code_block /\ lines[idx].k = "notes_open")
            => sc' = [sc EXCEPT !.current_section = "notes"]
       /\ (SlideStep /\ ~sc.in_code_block /\ lines[idx].k = "close")
            => sc' = [sc EXCEPT !.current_section = "content"]]_vars

\* a scan that has just read "::: columns" and then ":::" and is back in
\* mode content
C17_Witness ==
    /\ spc = "scan" /\ idx >= 3
    /\ lines[idx - 2].k = "columns_open"
    /\ lines[idx - 1].k = "close"
    /\ ~sc.in_code_block
    /\ sc.current_section = "content"

\* the "::: columns" lines of ls outside code blocks, and the last of them
ColumnsOpens(ls) ==
    {n \in 1..Len(ls) : ls[n].k = "columns_open" /\ ~InCode(ls, n)}
LastColumnsOpen(ls) ==
    CHOOSE n \in ColumnsOpens(ls) : \A m \in ColumnsOpens(ls) : m <= n

\* C18: right after a "::: columns" line read outside a code block the mode
\* is columns and columns is empty; and the columns of the returned slide
\* are those that the lines after the last such line give alone, so no
\* bucket made before it is left.
C18_ColumnsReset ==
    /\ (/\ spc = "scan" /\ idx > 1
        /\ (idx - 1) \in ColumnsOpens(lines))
            => sc.current_section = "columns" /\ sc.columns = <<>>
    /\ (spc = "done" /\ ColumnsOpens(lines) # {})
            => /\ slide.columns =
                    ScanAll([ScanInit EXCEPT !.current_section = "columns"],
                            SubSeq(lines, LastColumnsOpen(lines) + 1,
                                   Len(lines))).columns
               /\ Len(slide.columns) <=
                    Cardinality({n \in 1..Len(lines) :
                                    /\ n > LastColumnsOpen(lines)
                                    /\ lines[n].k = "column"})

\* a returned slide of two "::: columns" directives, each followed by a
\* column-start marker: one bucket is returned
C18_Witness ==
    /\ spc = "done"
    /\ Len(lines) = 4
    /\ lines[1].k = "columns_open" /\ lines[2].k = "column"
    /\ lines[3].k = "columns_open" /\ lines[4].k = "column"
    /\ slide.columns = << <<>> >>

\* C19: a scan step on a "::::" line outside a code block leaves the whole
\* scanner state as it was, in every mode; and a plain text line read right
\* after it in mode columns with a bucket present is appended to the last
\* bucket.
C19_ColumnCloserInert ==
    [][/\ (SlideStep /\ ~sc.in_code_block /\ lines[idx].k = "column_close")
            => sc' = sc
       /\ (/\ SlideStep /\ idx > 1
           /\ lines[idx - 1].k = "column_close" /\ lines[idx].k = "text"
           /\ ~sc.in_code_block
           /\ sc.current_section = "columns" /\ sc.columns # <<>>)
            => sc' = [sc EXCEPT !.columns[Len(sc.columns)] =
                                    Append(@, lines[idx])]]_vars

\* a scan in mode columns that read "::::" and then a text line, which is
\* now the last line of the last bucket
C19_Witness ==
    /\ spc = "scan" /\ idx >= 3
    /\ lines[idx - 2].k = "column_close"
    /\ lines[idx - 1].k = "text"
    /\ sc.current_section = "columns"
    /\ sc.columns # <<>>
    /\ sc.columns[Len(sc.columns)] # <<>>
    /\ sc.columns[Len(sc.columns)][Len(sc.columns[Len(sc.columns)])]
            = lines[idx - 1]

\* the line matches none of the rules for fences, directives, metrics, CTAs,
\* images and headings
PlainLine(l) ==
    /\ ~IsFence(l)
    /\ l.k \notin {"notes_open", "close", "columns_open", "column",
                   "column_close"}
    /\ ~IsMetric(l) /\ ~IsCta(l) /\ ~IsImage(l) /\ ~IsH1(l) /\ ~IsH2(l)

\* C20: a scan step outside a code block on a line that matches none of the
\* earlier rules appends the line to exactly one buffer and changes nothing
\* else: the notes buffer in mode notes; the last column bucket in mode
\* columns when a bucket exists; the content buffer otherwise, mode columns
\* without a bucket included.
C20_DefaultDispatch ==
    [][(SlideStep /\ ~sc.in_code_block /\ PlainLine(lines[idx])) =>
        sc' = IF sc.current_section = "notes"
              THEN [sc EXCEPT !.notes_lines = Append(@, lines[idx])]
              ELSE IF sc.current_section = "columns" /\ Len(sc.columns) > 0
              THEN [sc EXCEPT !.columns[Len(sc.columns)] =
                                    Append(@, lines[idx])]
              ELSE [sc EXCEPT !.content_lines = Append(@, lines[idx])]]_vars

\* a scan that read "::: columns" and then a plain line before any
\* column-start marker: the line is in the content buffer
C20_Witness ==
    /\ spc = "scan" /\ idx >= 3
    /\ lines[idx - 2].k = "columns_open"
    /\ PlainLine(lines[idx - 1])
    /\ sc.current_section = "columns"
    /\ sc.columns = <<>>
    /\ sc.content_lines # <<>>
    /\ sc.content_lines[Len(sc.content_lines)] = lines[idx - 1]

\* the text buffers and the mode are the same in st and st2
SameBuffers(st, st2) ==
    /\ st2.current_section = st.current_section
    /\ st2.notes_lines = st.notes_lines
    /\ st2.columns = st.columns
    /\ st2.content_lines = st.content_lines
    /\ st2.code_block_lines = st.code_block_lines

\* C21: a scan step outside a code block on a line that matches the metric,
\* CTA, image or a heading rule is taken by the first of these rules in
\* every mode: it appends one entry to metrics, to cta or to images, or sets
\* the title, and leaves the mode, the notes buffer, the column buckets and
\* the content buffer as they were.
C21_RulesBeforeMode ==
    [][(SlideStep /\ ~sc.in_code_block) =>
        LET l == lines[idx] IN
        /\ IsMetric(l) =>
            /\ sc'.metrics = Append(sc.metrics, [value |-> l.a, label |-> l.b])
            /\ sc'.cta = sc.cta /\ sc'.images = sc.images
            /\ sc'.title = sc.title
            /\ SameBuffers(sc, sc')
        /\ IsCta(l) =>
            /\ sc'.cta = Append(sc.cta, [text |-> l.a, url |-> l.b])
            /\ sc'.metrics = sc.metrics /\ sc'.images = sc.images
            /\ sc'.title = sc.title
            /\ SameBuffers(sc, sc')
        /\ IsImage(l) =>
            /\ sc'.images = Append(sc.images, [alt |-> l.a, src |-> l.b])
            /\ sc'.metrics = sc.metrics /\ sc'.cta = sc.cta
            /\ sc'.title = sc.title
            /\ SameBuffers(sc, sc')
        /\ (IsH1(l) \/ IsH2(l)) =>
            /\ sc'.title = l.a
            /\ sc'.metrics = sc.metrics /\ sc'.cta = sc.cta
            /\ sc'.images = sc.images
            /\ SameBuffers(sc, sc')]_vars

\* a scan in mode notes that has just read a metric line: the metric is
\* recorded and the notes buffer is empty
C21_Witness ==
    /\ spc = "scan" /\ idx >= 3
    /\ lines[idx - 2].k = "notes_open"
    /\ IsMetric(lines[idx - 1])
    /\ sc.current_section = "notes"
    /\ sc.metrics # <<>>
    /\ sc.notes_lines = <<>>

\* the heading lines among the first n lines of ls that lie outside code
\* blocks, and the last of them
Headings(ls, n) ==
    {m \in 1..n : (IsH1(ls[m]) \/ IsH2(ls[m])) /\ ~InCode(ls, m)}
LastHeading(ls, n) ==
    CHOOSE m \in Headings(ls, n) : \A x \in Headings(ls, n) : x <= m

\* C22: at every point of the scan the title is the trimmed text of the last
\* heading line read outside a code block (empty if none was read), of level
\* 1 or 2, and the slide type is section exactly when a level-1 heading line
\* is among those read, content otherwise; so a level-1 heading sets the type
\* to section and a level-2 heading leaves it.
C22_HeadingRules ==
    spc = "scan" =>
        LET hs == Headings(lines, idx - 1)
        IN /\ sc.title = IF hs = {} THEN ""
                         ELSE lines[LastHeading(lines, idx - 1)].a
           /\ sc.slide_type =
                IF \E m \in hs : IsH1(lines[m]) THEN "section" ELSE "content"

\* a scan that has just read a level-1 and then a level-2 heading of another
\* title: the title is the second one and the type is section
C22_Witness ==
    /\ spc = "scan" /\ idx >= 3
    /\ IsH1(lines[idx - 2]) /\ IsH2(lines[idx - 1])
    /\ ~sc.in_code_block
    /\ lines[idx - 2].a # lines[idx - 1].a
    /\ sc.title = lines[idx - 1].a
    /\ sc.slide_type = "section"

\* C23: the content of the returned slide is the content buffer without its
\* empty and whitespace-only lines, the other lines in their order and as
\* they were read, so no line of content is blank; notes is the notes
\* buffer joined by newlines and stripped of whitespace at both ends.
C23_TextBuckets ==
    spc = "done" =>
        /\ slide.content =
                SelectSeq(sc.content_lines, LAMBDA l : l.k # "blank")
        /\ \A n \in 1..Len(slide.content) : slide.content[n].k # "blank"
        /\ slide.notes = Strip(JoinLines(sc.notes_lines))

\* a returned slide whose content buffer held a blank line between a line
\* that ends with whitespace and another line: content is the two lines,
\* the first still ending with whitespace
C23_Witness ==
    /\ spc = "done"
    /\ Len(sc.content_lines) = 3
    /\ sc.content_lines[2].k = "blank"
    /\ Len(slide.content) = 2
    /\ slide.content[1].trail
    /\ slide.content[1] = sc.content_lines[1]
    /\ slide.content[2] = sc.content_lines[3]

====
